---- MODULE Spec2Model ----
(***************************************************************************)
(* find_mismatch.py: a line-by-line tag scanner (re.findall over each      *)
(* line) feeding a stack of open tags, with the diagnostics it prints.     *)
(* Text is modelled as sequences of one-character strings, so that the     *)
(* regular expression is computed character by character.                  *)
(***************************************************************************)
EXTENDS Integers, Sequences, FiniteSets, TLC

VARIABLES
    file,       \* the document on disk: [readable, data]
    content,    \* f.read(): the whole text, a sequence of characters
    lines,      \* content.split('\n')
    i,          \* index of enumerate(lines), 0-based; -1 before the loop
    line_tags,  \* re.findall(...) of the current line: a sequence of 4-tuples
    k,          \* position of the inner `for t in line_tags` (next tuple)
    stack,      \* list of (name, line) frames, bottom first
    out,        \* the lines printed so far
    pc,         \* control point of the run
    consumed,   \* history: the tuples the inner loop has handled so far
    earlier,    \* history: the calls that have ended, each [file, out]
    gv,         \* generate_visemes.py: the call of generate_visemes
    disk        \* generate_visemes.py: the files, path |-> content if any

vars == <<file, content, lines, i, line_tags, k, stack, out, pc, consumed,
          earlier, gv, disk>>

-----------------------------------------------------------------------------
(* find_mismatch.py never calls generate_visemes: while it runs there is  *)
(* no call and no file of the other script.                               *)

NoCall == [pc |-> "none"]

NoDisk == <<>>

-----------------------------------------------------------------------------
(* Bounds of the model. *)

MaxPieces == 4

\* The calls of find_mismatch followed in one process.
MaxRuns == 3

\* The pieces of a document where termination is checked.
MaxFairPieces == 3

-----------------------------------------------------------------------------
(* The regular expression of line 13. *)

\* The alternation (div|section|...|UserCircle), in the order it is written.
Vocabulary ==
    << <<"d", "i", "v">>,
       <<"s", "e", "c", "t", "i", "o", "n">>,
       <<"h", "e", "a", "d", "e", "r">>,
       <<"f", "o", "o", "t", "e", "r">>,
       <<"b", "u", "t", "t", "o", "n">>,
       <<"s", "p", "a", "n">>,
       <<"h", "1">>,
       <<"h", "2">>,
       <<"h", "3">>,
       <<"p">>,
       <<"A", "v", "a", "t", "a", "r">>,
       <<"A", "m", "b", "i", "e", "n", "t", "B", "a", "c", "k", "g", "r", "o", "u", "n", "d">>,
       <<"B", "a", "t", "c", "h", "A", "c", "t", "i", "o", "n", "B", "a", "r">>,
       <<"Z", "e", "n", "a", "B", "a", "t", "c", "h", "C", "o", "m", "p", "o", "s", "e", "M", "o", "d", "a", "l">>,
       <<"N", "e", "w", "C", "o", "n", "t", "a", "c", "t", "M", "o", "d", "a", "l">>,
       <<"Z", "e", "n", "a", "C", "a", "l", "l", "T", "o", "o", "l", "t", "i", "p">>,
       <<"I", "n", "t", "e", "l", "S", "c", "o", "r", "e", "T", "o", "o", "l", "t", "i", "p">>,
       <<"S", "h", "i", "e", "l", "d">>,
       <<"M", "a", "i", "l">>,
       <<"P", "h", "o", "n", "e">>,
       <<"B", "r", "i", "e", "f", "c", "a", "s", "e">>,
       <<"H", "a", "m", "m", "e", "r">>,
       <<"A", "r", "r", "o", "w", "R", "i", "g", "h", "t">>,
       <<"L", "a", "y", "o", "u", "t", "G", "r", "i", "d">>,
       <<"L", "i", "s", "t">>,
       <<"P", "l", "u", "s">>,
       <<"X">>,
       <<"S", "e", "n", "d">>,
       <<"S", "p", "a", "r", "k", "l", "e", "s">>,
       <<"C", "h", "e", "c", "k", "S", "q", "u", "a", "r", "e">>,
       <<"D", "o", "l", "l", "a", "r", "S", "i", "g", "n">>,
       <<"R", "e", "f", "r", "e", "s", "h", "C", "w">>,
       <<"U", "s", "e", "r", "s">>,
       <<"S", "e", "a", "r", "c", "h">>,
       <<"U", "s", "e", "r", "C", "i", "r", "c", "l", "e">> >>

\* The empty string '' of an unmatched group.
Empty == <<>>

\* \s of the pattern (the ASCII white space a line can hold).
IsSpace(c) == c \in {" ", "\t", "\r", "\f", "\n"}

\* The literal w occurs in s at position p.
HasAt(s, p, w) ==
    /\ p >= 1
    /\ p + Len(w) - 1 <= Len(s)
    /\ \A j \in 1..Len(w) : s[p + j - 1] = w[j]

\* \s* from position p: the position after the longest run of white space.
RECURSIVE SkipSpace(_, _)
SkipSpace(s, p) ==
    IF p <= Len(s) /\ IsSpace(s[p]) THEN SkipSpace(s, p + 1) ELSE p

\* The names of the alternation that occur in s at position p, by index.
NamesAt(s, p) == { n \in 1..Len(Vocabulary) : HasAt(s, p, Vocabulary[n]) }

\* First alternative  <(name)(\s*/>)  at p: the indices of the names for which
\* the whole alternative matches.
SelfAt(s, p) ==
    IF s[p] # "<" THEN {}
    ELSE { n \in NamesAt(s, p + 1) :
             HasAt(s, SkipSpace(s, p + 1 + Len(Vocabulary[n])), <<"/", ">">>) }

\* Second alternative  <(name)  at p.
OpenAt(s, p) == IF s[p] # "<" THEN {} ELSE NamesAt(s, p + 1)

\* Third alternative  </(name)  at p.
CloseAt(s, p) == IF ~HasAt(s, p, <<"<", "/">>) THEN {} ELSE NamesAt(s, p + 2)

\* The alternation tries its names left to right: the first that matches.
First(S) == CHOOSE n \in S : \A m \in S : n <= m

\* One match attempt at p: the alternatives in order. The result is the tuple
\* of the four groups and the position after the match, or no match.
MatchAt(s, p) ==
    LET self  == SelfAt(s, p)
        open  == OpenAt(s, p)
        close == CloseAt(s, p)
    IN  IF self # {} THEN
            LET name == Vocabulary[First(self)]
                q    == SkipSpace(s, p + 1 + Len(name))
            IN  [found |-> TRUE,
                 t     |-> <<name, SubSeq(s, p + 1 + Len(name), q + 1), Empty, Empty>>,
                 next  |-> q + 2]
        ELSE IF open # {} THEN
            LET name == Vocabulary[First(open)]
            IN  [found |-> TRUE,
                 t     |-> <<Empty, Empty, name, Empty>>,
                 next  |-> p + 1 + Len(name)]
        ELSE IF close # {} THEN
            LET name == Vocabulary[First(close)]
            IN  [found |-> TRUE,
                 t     |-> <<Empty, Empty, Empty, name>>,
                 next  |-> p + 2 + Len(name)]
        ELSE [found |-> FALSE, t |-> <<>>, next |-> p + 1]

\* re.findall(pattern, line): the non-overlapping matches from left to right.
\* (The match at p is bound as a value, so that the scan goes on from a
\* position already computed.)
RECURSIVE FindAllFrom(_, _)
FindAllFrom(s, p) ==
    IF p > Len(s) THEN <<>>
    ELSE CHOOSE found \in
            { IF m.found THEN <<m.t>> \o FindAllFrom(s, m.next)
              ELSE FindAllFrom(s, m.next) : m \in {MatchAt(s, p)} } : TRUE

FindAll(s) == FindAllFrom(s, 1)

\* content.split('\n'): always at least one line.
RECURSIVE SplitFrom(_, _, _)
SplitFrom(s, p, cur) ==
    IF p > Len(s) THEN <<cur>>
    ELSE IF s[p] = "\n" THEN <<cur>> \o SplitFrom(s, p + 1, <<>>)
    ELSE SplitFrom(s, p + 1, Append(cur, s[p]))

Split(s) == SplitFrom(s, 1, <<>>)

-----------------------------------------------------------------------------
(* The documents of the model: up to MaxPieces of these pieces of text. *)

Pieces ==
    { <<"<", "d", "i", "v", ">">>,
      <<"<", "/", "d", "i", "v", ">">>,
      <<"<", "s", "p", "a", "n", ">">>,
      <<"<", "/", "s", "p", "a", "n", ">">>,
      <<"<", "s", "p", "a", "n", "/", ">">>,
      <<"<", "s", "p", "a", "n", " ", "/", ">">>,
      <<"<", "s", "p", "a", "n", " ", "i", "d", "/", ">">>,
      <<"<", "d", "i", "v", "i", "d", "e", "r", ">">>,
      <<"\n">> }

RECURSIVE Flatten(_)
Flatten(ps) == IF ps = <<>> THEN <<>> ELSE Head(ps) \o Flatten(Tail(ps))

DocumentsUpTo(max) ==
    { Flatten(ps) : ps \in UNION { [1..n -> Pieces] : n \in 0..max } }

Documents == DocumentsUpTo(MaxPieces)

-----------------------------------------------------------------------------
(* The printed lines, as the parts of their f-strings. *)

UnexpectedLine(name, ln) ==
    <<"Unexpected closing tag </", name, "> at line ", ln>>

MismatchLine(top, line_num, name, ln) ==
    <<"Mismatch: <", top, "> from line ", line_num, " closed by </", name,
      "> at line ", ln>>

UnclosedHeader == <<"Unclosed tags:">>

UnclosedLine(name, line_num) == <<"<", name, "> at line ", line_num>>

-----------------------------------------------------------------------------
(* The run. *)

Init ==
    /\ file \in ([readable : {TRUE}, data : Documents]
                    \cup {[readable |-> FALSE, data |-> <<>>]})
    /\ content = <<>>
    /\ lines = <<>>
    /\ i = -1
    /\ line_tags = <<>>
    /\ k = 1
    /\ stack = <<>>
    /\ out = <<>>
    /\ pc = "open"
    /\ consumed = <<>>
    /\ earlier = <<>>
    /\ gv = NoCall
    /\ disk = NoDisk

\* Lines 4-11 with the stack kept from call to call (a list created once,
\* outside the body) instead of `stack = []`.
ReadKeepsStack ==
    /\ pc = "open"
    /\ file.readable
    /\ content' = file.data
    /\ stack' = stack
    /\ lines' = Split(file.data)
    /\ pc' = "scan"
    /\ UNCHANGED <<gv, disk, earlier, file, i, line_tags, k, out, consumed>>

\* Lines 4-11: the file is read whole, the stack starts empty, the text is split.
\* (The list `tags` of line 8 is never used again and is left out.)
Read ==
    /\ pc = "open"
    /\ file.readable
    /\ content' = file.data
    /\ stack' = <<>>
    /\ lines' = Split(file.data)
    /\ pc' = "scan"
    /\ UNCHANGED <<gv, disk, earlier, file, i, line_tags, k, out, consumed>>

\* Lines 4-5 with the error caught and an empty text scanned instead.
ReadFailsSwallowed ==
    /\ pc = "open"
    /\ ~file.readable
    /\ content' = <<>>
    /\ stack' = <<>>
    /\ lines' = Split(<<>>)
    /\ pc' = "scan"
    /\ UNCHANGED <<gv, disk, earlier, file, i, line_tags, k, out, consumed>>

\* Lines 4-5: open() or read() raises; nothing else of the body runs and the
\* exception leaves the function.
ReadFails ==
    /\ pc = "open"
    /\ ~file.readable
    /\ pc' = "raised"
    /\ UNCHANGED <<gv, disk, earlier, file, content, lines, i, line_tags, k, stack, out, consumed>>

\* The tuple the inner loop is at.
t == line_tags[k]

AtTag == pc = "scan" /\ k <= Len(line_tags)

\* Lines 12-13: the next line of enumerate(lines) and its matches.
NextLine ==
    /\ pc = "scan"
    /\ k > Len(line_tags)
    /\ i + 1 < Len(lines)
    /\ i' = i + 1
    /\ line_tags' = FindAll(lines[i + 2])
    /\ k' = 1
    /\ UNCHANGED <<gv, disk, earlier, file, content, lines, stack, out, pc, consumed>>

\* History only: the tuple at hand has been handled.
Consume == consumed' = Append(consumed, t)

\* Lines 15-16: group 2 is exactly '/>'.
SelfClosing ==
    /\ AtTag
    /\ t[2] = <<"/", ">">>
    /\ k' = k + 1
    /\ Consume
    /\ UNCHANGED <<gv, disk, earlier, file, content, lines, i, line_tags, stack, out, pc>>

\* Lines 17-18 with the frame inserted at the bottom of the list.
OpenTagAtBottom ==
    /\ AtTag
    /\ t[2] # <<"/", ">">>
    /\ t[3] # Empty
    /\ stack' = <<(<<t[3], i + 1>>)>> \o stack
    /\ k' = k + 1
    /\ Consume
    /\ UNCHANGED <<gv, disk, earlier, file, content, lines, i, line_tags, out, pc>>

\* Lines 17-18 with the 0-based index stored as the line.
OpenTagZeroBased ==
    /\ AtTag
    /\ t[2] # <<"/", ">">>
    /\ t[3] # Empty
    /\ stack' = Append(stack, <<t[3], i>>)
    /\ k' = k + 1
    /\ Consume
    /\ UNCHANGED <<gv, disk, earlier, file, content, lines, i, line_tags, out, pc>>

\* Lines 17-18 with the frame given the number of the line that follows.
OpenTagNextLine ==
    /\ AtTag
    /\ t[2] # <<"/", ">">>
    /\ t[3] # Empty
    /\ stack' = Append(stack, <<t[3], i + 2>>)
    /\ k' = k + 1
    /\ Consume
    /\ UNCHANGED <<gv, disk, earlier, file, content, lines, i, line_tags, out, pc>>

\* Lines 17-18.
OpenTag ==
    /\ AtTag
    /\ t[2] # <<"/", ">">>
    /\ t[3] # Empty
    /\ stack' = Append(stack, <<t[3], i + 1>>)
    /\ k' = k + 1
    /\ Consume
    /\ UNCHANGED <<gv, disk, earlier, file, content, lines, i, line_tags, out, pc>>

\* Lines 19-22 with the 0-based index printed as the line.
CloseUnexpectedZeroBased ==
    /\ AtTag
    /\ t[2] # <<"/", ">">>
    /\ t[3] = Empty
    /\ t[4] # Empty
    /\ stack = <<>>
    /\ out' = Append(out, UnexpectedLine(t[4], i))
    /\ pc' = "done"
    /\ Consume
    /\ UNCHANGED <<gv, disk, earlier, file, content, lines, i, line_tags, k, stack>>

\* Lines 19-22: a closing tag with an empty stack prints and returns.
CloseUnexpected ==
    /\ AtTag
    /\ t[2] # <<"/", ">">>
    /\ t[3] = Empty
    /\ t[4] # Empty
    /\ stack = <<>>
    /\ out' = Append(out, UnexpectedLine(t[4], i + 1))
    /\ pc' = "done"
    /\ Consume
    /\ UNCHANGED <<gv, disk, earlier, file, content, lines, i, line_tags, k, stack>>

\* Lines 23-25 with a search for a frame of the same name below the top:
\* everything above the nearest such frame is dropped with it.
ClosePopToAncestor ==
    /\ AtTag
    /\ t[2] # <<"/", ">">>
    /\ t[3] = Empty
    /\ t[4] # Empty
    /\ stack # <<>>
    /\ LET same     == { j \in 1..Len(stack) : stack[j][1] = t[4] }
           hit      == IF same = {} THEN Len(stack)
                       ELSE CHOOSE j \in same : \A j2 \in same : j2 <= j
           top      == stack[hit][1]
           line_num == stack[hit][2]
       IN  /\ stack' = SubSeq(stack, 1, hit - 1)
           /\ out' = IF top # t[4]
                     THEN Append(out, MismatchLine(top, line_num, t[4], i + 1))
                     ELSE out
    /\ k' = k + 1
    /\ Consume
    /\ UNCHANGED <<gv, disk, earlier, file, content, lines, i, line_tags, pc>>

\* Lines 23-25 with the popped name compared to the wrong group.
ClosePopWrongGroup ==
    /\ AtTag
    /\ t[2] # <<"/", ">">>
    /\ t[3] = Empty
    /\ t[4] # Empty
    /\ stack # <<>>
    /\ LET top      == stack[Len(stack)][1]
           line_num == stack[Len(stack)][2]
       IN  /\ stack' = SubSeq(stack, 1, Len(stack) - 1)
           /\ out' = IF top # t[3]
                     THEN Append(out, MismatchLine(top, line_num, t[4], i + 1))
                     ELSE out
    /\ k' = k + 1
    /\ Consume
    /\ UNCHANGED <<gv, disk, earlier, file, content, lines, i, line_tags, pc>>

\* Lines 23-25 with the frame left on the stack when the names differ.
ClosePopKeepsMismatched ==
    /\ AtTag
    /\ t[2] # <<"/", ">">>
    /\ t[3] = Empty
    /\ t[4] # Empty
    /\ stack # <<>>
    /\ LET top      == stack[Len(stack)][1]
           line_num == stack[Len(stack)][2]
       IN  /\ stack' = IF top # t[4] THEN stack
                       ELSE SubSeq(stack, 1, Len(stack) - 1)
           /\ out' = IF top # t[4]
                     THEN Append(out, MismatchLine(top, line_num, t[4], i + 1))
                     ELSE out
    /\ k' = k + 1
    /\ Consume
    /\ UNCHANGED <<gv, disk, earlier, file, content, lines, i, line_tags, pc>>

\* Lines 19, 23-25: a closing tag pops the top frame.
ClosePop ==
    /\ AtTag
    /\ t[2] # <<"/", ">">>
    /\ t[3] = Empty
    /\ t[4] # Empty
    /\ stack # <<>>
    /\ LET top      == stack[Len(stack)][1]
           line_num == stack[Len(stack)][2]
       IN  /\ stack' = SubSeq(stack, 1, Len(stack) - 1)
           /\ out' = IF top # t[4]
                     THEN Append(out, MismatchLine(top, line_num, t[4], i + 1))
                     ELSE out
    /\ k' = k + 1
    /\ Consume
    /\ UNCHANGED <<gv, disk, earlier, file, content, lines, i, line_tags, pc>>

\* Lines 15-19 as a loop that forgets to move on to the next tuple.
NoBranchStuck ==
    /\ AtTag
    /\ t[2] # <<"/", ">">>
    /\ t[3] = Empty
    /\ t[4] = Empty
    /\ UNCHANGED vars

\* Lines 15-19: a tuple of the first alternative with white space before '/>'
\* passes all three tests and does nothing.
NoBranch ==
    /\ AtTag
    /\ t[2] # <<"/", ">">>
    /\ t[3] = Empty
    /\ t[4] = Empty
    /\ k' = k + 1
    /\ Consume
    /\ UNCHANGED <<gv, disk, earlier, file, content, lines, i, line_tags, stack, out, pc>>

\* Lines 28-31 with the frames printed from the top of the stack down.
ReportInnermostFirst ==
    /\ pc = "scan"
    /\ k > Len(line_tags)
    /\ i + 1 >= Len(lines)
    /\ out' = IF stack # <<>>
              THEN out \o <<UnclosedHeader>>
                       \o [j \in 1..Len(stack) |->
                             UnclosedLine(stack[Len(stack) + 1 - j][1],
                                          stack[Len(stack) + 1 - j][2])]
              ELSE out
    /\ pc' = "done"
    /\ UNCHANGED <<gv, disk, earlier, file, content, lines, i, line_tags, k, stack, consumed>>

\* Lines 28-31 with the header printed outside the test of the stack.
ReportAlwaysHeader ==
    /\ pc = "scan"
    /\ k > Len(line_tags)
    /\ i + 1 >= Len(lines)
    /\ out' = out \o <<UnclosedHeader>>
                  \o [j \in 1..Len(stack) |-> UnclosedLine(stack[j][1], stack[j][2])]
    /\ pc' = "done"
    /\ UNCHANGED <<gv, disk, earlier, file, content, lines, i, line_tags, k, stack, consumed>>

\* Lines 28-31: after the last line, the frames left on the stack are printed
\* in list order.
Report ==
    /\ pc = "scan"
    /\ k > Len(line_tags)
    /\ i + 1 >= Len(lines)
    /\ out' = IF stack # <<>>
              THEN out \o <<UnclosedHeader>>
                       \o [j \in 1..Len(stack) |-> UnclosedLine(stack[j][1], stack[j][2])]
              ELSE out
    /\ pc' = "done"
    /\ UNCHANGED <<gv, disk, earlier, file, content, lines, i, line_tags, k, stack, consumed>>

Next ==
    \/ Read
    \/ ReadFails
    \/ NextLine
    \/ SelfClosing
    \/ OpenTag
    \/ CloseUnexpected
    \/ ClosePop
    \/ NoBranch
    \/ Report

Spec == Init /\ [][Next]_vars

\* One run under the interpreter, which keeps running the call: a statement
\* that can run, runs.
FairInit ==
    /\ file \in ([readable : {TRUE}, data : DocumentsUpTo(MaxFairPieces)]
                    \cup {[readable |-> FALSE, data |-> <<>>]})
    /\ content = <<>>
    /\ lines = <<>>
    /\ i = -1
    /\ line_tags = <<>>
    /\ k = 1
    /\ stack = <<>>
    /\ out = <<>>
    /\ pc = "open"
    /\ consumed = <<>>
    /\ earlier = <<>>
    /\ gv = NoCall
    /\ disk = NoDisk

FairSpec == FairInit /\ [][Next]_vars /\ WF_vars(Next)

-----------------------------------------------------------------------------
(* Several calls of find_mismatch, one after the other, in one process.    *)

\* The files of these calls: one that cannot be opened, and a few texts that
\* between them take every branch of the loop.
RunFiles ==
    { [readable |-> FALSE, data |-> <<>>] } \cup
    [readable : {TRUE},
     data : { <<"<", "d", "i", "v", ">">>,
              <<"<", "/", "d", "i", "v", ">">>,
              <<"<", "d", "i", "v", ">", "<", "/", "d", "i", "v", ">">>,
              <<"<", "s", "p", "a", "n", "/", ">", "<", "s", "p", "a", "n", " ", "/", ">">>,
              <<"<", "d", "i", "v", ">", "\n", "<", "/", "s", "p", "a", "n", ">">> }]

RunsInit ==
    /\ file \in RunFiles
    /\ content = <<>>
    /\ lines = <<>>
    /\ i = -1
    /\ line_tags = <<>>
    /\ k = 1
    /\ stack = <<>>
    /\ out = <<>>
    /\ pc = "open"
    /\ consumed = <<>>
    /\ earlier = <<>>
    /\ gv = NoCall
    /\ disk = NoDisk

\* Line 3, called again after a call has returned or raised: control is at
\* the top of the function and nothing has been printed by this call. The
\* names content, lines and stack are bound by lines 5, 10 and 11, not here.
Again ==
    /\ pc \in {"done", "raised"}
    /\ Len(earlier) + 1 < MaxRuns
    /\ earlier' = Append(earlier, [file |-> file, out |-> out])
    /\ file' \in RunFiles
    /\ pc' = "open"
    /\ i' = -1
    /\ line_tags' = <<>>
    /\ k' = 1
    /\ out' = <<>>
    /\ consumed' = <<>>
    /\ UNCHANGED <<gv, disk, content, lines, stack>>

RunsNext ==
    \/ Read
    \/ ReadFails
    \/ NextLine
    \/ SelfClosing
    \/ OpenTag
    \/ CloseUnexpected
    \/ ClosePop
    \/ NoBranch
    \/ Report
    \/ Again

RunsSpec == RunsInit /\ [][RunsNext]_vars

-----------------------------------------------------------------------------
(* The event a tuple stands for, by the tests of lines 15, 17 and 19. *)

Kind(tu) ==
    IF tu[2] = <<"/", ">">> THEN "SelfClosing"
    ELSE IF tu[3] # Empty THEN "Open"
    ELSE IF tu[4] # Empty THEN "Close"
    ELSE "Ignored"

\* The name the tuple carries for its event.
Name(tu) ==
    IF Kind(tu) = "Open" THEN tu[3]
    ELSE IF Kind(tu) = "Close" THEN tu[4]
    ELSE tu[1]

\* All tuples of the document, line after line.
RECURSIVE TagsFrom(_)
TagsFrom(j) ==
    IF j > Len(lines) THEN <<>> ELSE FindAll(lines[j]) \o TagsFrom(j + 1)

AllTags == TagsFrom(1)

-----------------------------------------------------------------------------
(* The document as written, independently of the scan: where tags of the   *)
(* vocabulary start, the line of a position, a tag's full name and end.    *)

VocabularySet == { Vocabulary[n] : n \in 1..Len(Vocabulary) }

StartsTag(s, p) ==
    /\ s[p] = "<"
    /\ \E w \in VocabularySet : HasAt(s, p + 1, w) \/ HasAt(s, p + 1, <<"/">> \o w)

\* The positions of the tags of s, in increasing order.
RECURSIVE StartsFrom(_, _)
StartsFrom(s, p) ==
    IF p > Len(s) THEN <<>>
    ELSE IF StartsTag(s, p) THEN <<p>> \o StartsFrom(s, p + 1)
    ELSE StartsFrom(s, p + 1)

TagStarts(s) == StartsFrom(s, 1)

\* The position of the m-th tag of s.
NthStart(s, m) == TagStarts(s)[m]

\* The 1-based line of position p.
LineOfPos(s, p) == 1 + Cardinality({ q \in 1..(p - 1) : s[q] = "\n" })

\* The line of the m-th tag of the document.
EventLine(m) == LineOfPos(content, NthStart(content, m))

IsNameEnd(c) == IsSpace(c) \/ c \in {"<", ">", "/"}

RECURSIVE NameFrom(_, _)
NameFrom(s, p) ==
    IF p > Len(s) \/ IsNameEnd(s[p]) THEN <<>>
    ELSE <<s[p]>> \o NameFrom(s, p + 1)

\* The full name of the tag that starts at p.
WrittenName(s, p) ==
    IF HasAt(s, p, <<"<", "/">>) THEN NameFrom(s, p + 2) ELSE NameFrom(s, p + 1)

RECURSIVE TagEnd(_, _)
TagEnd(s, p) == IF p > Len(s) \/ s[p] = ">" THEN p ELSE TagEnd(s, p + 1)

\* The tag that starts at p ends in "/>".
EndsSelfClosing(s, p) ==
    LET q == TagEnd(s, p) IN q <= Len(s) /\ s[q - 1] = "/"

-----------------------------------------------------------------------------
(* The kinds of printed line. *)

IsUnexpectedLine(l) == l[1] = "Unexpected closing tag </"
IsMismatchLine(l) == l[1] = "Mismatch: <"
IsHeader(l) == l = UnclosedHeader
IsUnclosedLine(l) == l[1] = "<"

-----------------------------------------------------------------------------
(* C1: there is no early termination: when the run has ended, every tag of *)
(* the document has been consumed, whatever was printed before.            *)
C1_NoEarlyTermination ==
    pc = "done" => Len(consumed) = Len(AllTags)

-----------------------------------------------------------------------------
-----------------------------------------------------------------------------
\* The events of a sequence of tuples: kind and name.
EventsOf(tags) == [j \in 1..Len(tags) |-> <<Kind(tags[j]), Name(tags[j])>>]

\* A step of the inner loop handles the tuple at hand.
Handled == consumed' # consumed

Div == <<"d", "i", "v">>
Span == <<"s", "p", "a", "n">>

CrossedPair ==
    << <<"Open", Div>>, <<"Open", Span>>, <<"Close", Div>>, <<"Close", Span>> >>

(* C3: a Close handled with a non-empty stack pops exactly the top frame   *)
(* and leaves the frames beneath unchanged; it prints nothing when the     *)
(* popped name equals its own and exactly one Mismatch line otherwise; the *)
(* scan goes on, so Open(div), Open(span), Close(div), Close(span) ends    *)
(* with exactly two Mismatch lines and an empty stack.                     *)
C3_ClosePopsTopOnly ==
    /\ [][ (AtTag /\ Kind(t) = "Close" /\ stack # <<>> /\ Handled) =>
             /\ stack' = SubSeq(stack, 1, Len(stack) - 1)
             /\ pc' = "scan"
             /\ out' = IF stack[Len(stack)][1] = Name(t) THEN out
                       ELSE Append(out, MismatchLine(stack[Len(stack)][1],
                                                     stack[Len(stack)][2],
                                                     Name(t),
                                                     EventLine(Len(consumed) + 1))) ]_vars
    /\ [](pc = "done" /\ EventsOf(AllTags) = CrossedPair =>
             /\ stack = <<>>
             /\ out = << MismatchLine(Span, EventLine(2), Div, EventLine(3)),
                         MismatchLine(Div, EventLine(1), Span, EventLine(4)) >>)

\* The crossed pair has been scanned to the end.
C3_Witness ==
    /\ pc = "done"
    /\ EventsOf(AllTags) = CrossedPair
    /\ Len(out) = 2

(* C4: a Close handled with an empty stack pops nothing and prints exactly *)
(* one Unexpected line with its own name and line, never a Mismatch, and   *)
(* the stack stays empty; a document whose only tag is a Close ends with   *)
(* exactly that one line and an empty stack.                               *)
C4_UnexpectedClose ==
    /\ [][ (AtTag /\ Kind(t) = "Close" /\ stack = <<>> /\ Handled) =>
             /\ stack' = <<>>
             /\ out' = Append(out, UnexpectedLine(Name(t),
                                                  EventLine(Len(consumed) + 1))) ]_vars
    /\ [](pc = "done" /\ Len(AllTags) = 1 /\ Kind(AllTags[1]) = "Close" =>
             /\ stack = <<>>
             /\ out = << UnexpectedLine(WrittenName(content, NthStart(content, 1)),
                                        EventLine(1)) >>)

\* A lone close tag, below the first line, has been reported.
C4_Witness ==
    /\ pc = "done"
    /\ Len(AllTags) = 1
    /\ Kind(AllTags[1]) = "Close"
    /\ EventLine(1) > 1
    /\ Len(out) = 1

(* C5: every tag of the vocabulary that ends in "/>" is self-closing,      *)
(* whatever stands between its name and the "/>": it is never handled as   *)
(* an Open (pushed) or as a Close.                                         *)
C5_SelfClosingNeverPushed ==
    \A m \in 1..Len(consumed) :
        EndsSelfClosing(content, NthStart(content, m)) =>
            Kind(consumed[m]) \in {"SelfClosing", "Ignored"}

(* C6: a tag whose name is not in the vocabulary gives no event: the name  *)
(* of every event handled is the full name of the tag as written.          *)
C6_OnlyVocabularyNames ==
    \A m \in 1..Len(consumed) :
        Name(consumed[m]) = WrittenName(content, NthStart(content, m))

-----------------------------------------------------------------------------
\* Proper nesting by rewriting: drop a tag without effect, or an Open
\* directly followed by a Close of the same name, until nothing can be dropped.
Without(ev, a, b) == SubSeq(ev, 1, a - 1) \o SubSeq(ev, b + 1, Len(ev))

RECURSIVE Reduce(_)
Reduce(ev) ==
    LET noEffect == { j \in 1..Len(ev) : ev[j][1] \in {"SelfClosing", "Ignored"} }
        pairs    == { j \in 1..(Len(ev) - 1) :
                        /\ ev[j][1] = "Open"
                        /\ ev[j + 1][1] = "Close"
                        /\ ev[j][2] = ev[j + 1][2] }
    IN  IF noEffect # {} THEN
            LET j == CHOOSE x \in noEffect : TRUE IN Reduce(Without(ev, j, j))
        ELSE IF pairs # {} THEN
            LET j == CHOOSE x \in pairs : TRUE IN Reduce(Without(ev, j, j + 1))
        ELSE ev

ProperlyNested(ev) == Reduce(ev) = <<>>

(* C7: for a properly nested stream of events (every Open closed by a      *)
(* Close of its name, last opened first closed, self-closing tags          *)
(* anywhere) the run prints nothing at all, consumes every event and ends  *)
(* with an empty stack.                                                    *)
C7_ProperNestingIsSilent ==
    (pc = "done" /\ ProperlyNested(EventsOf(AllTags))) =>
        /\ out = <<>>
        /\ stack = <<>>
        /\ consumed = AllTags

\* A nested pair of two names around a self-closing tag has been scanned.
C7_Witness ==
    /\ pc = "done"
    /\ ProperlyNested(EventsOf(AllTags))
    /\ Len(AllTags) = 4
    /\ EventsOf(AllTags)[1] = <<"Open", Div>>
    /\ EventsOf(AllTags)[2] = <<"Open", Span>>

-----------------------------------------------------------------------------
\* The events of kind kd among consumed[a..b].
CountOf(kd, a, b) == Cardinality({ j \in a..b : Kind(consumed[j]) = kd })

\* The Open consumed as m-th event has not been popped: no Close after it
\* found it on top, i.e. after it the Closes never outnumber the Opens.
Unpopped(m) ==
    /\ Kind(consumed[m]) = "Open"
    /\ \A b \in (m + 1)..Len(consumed) :
           CountOf("Close", m + 1, b) <= CountOf("Open", m + 1, b)

\* The lines of the tags of the document, in order.
TagLines == [m \in 1..Len(TagStarts(content)) |->
                LineOfPos(content, TagStarts(content)[m])]

RECURSIVE OpenFramesFrom(_, _)
OpenFramesFrom(m, line) ==
    IF m > Len(consumed) THEN <<>>
    ELSE IF Unpopped(m)
         THEN <<(<<Name(consumed[m]), line[m]>>)>> \o OpenFramesFrom(m + 1, line)
         ELSE OpenFramesFrom(m + 1, line)

(* C8: in every state the stack is, bottom to top, the consumed Open       *)
(* events not yet popped, in document order, each frame with the name and  *)
(* the line of its Open event.                                             *)
C8_StackIsOpenTags ==
    stack = OpenFramesFrom(1, TagLines)

\* Two frames are open after an earlier Open has been popped.
C8_Witness ==
    /\ Len(stack) = 2
    /\ stack[1][1] # stack[2][1]
    /\ CountOf("Close", 1, Len(consumed)) >= 1

-----------------------------------------------------------------------------
\* The closing name and line a Mismatch or Unexpected line reports.
ClosedBy(l) == IF IsMismatchLine(l) THEN <<l[6], l[8]>> ELSE <<l[2], l[4]>>

\* The Close events consumed, as <<name, line>>, in the order consumed.
RECURSIVE ClosesFrom(_)
ClosesFrom(m) ==
    IF m > Len(consumed) THEN <<>>
    ELSE IF Kind(consumed[m]) = "Close"
         THEN <<(<<Name(consumed[m]), EventLine(m)>>)>> \o ClosesFrom(m + 1)
         ELSE ClosesFrom(m + 1)

\* a is a subsequence of b.
RECURSIVE IsSubSeq(_, _)
IsSubSeq(a, b) ==
    IF a = <<>> THEN TRUE
    ELSE IF b = <<>> THEN FALSE
    ELSE IF Head(a) = Head(b) THEN IsSubSeq(Tail(a), Tail(b))
    ELSE IsSubSeq(a, Tail(b))

IsCloseLine(l) == IsMismatchLine(l) \/ IsUnexpectedLine(l)

HeaderAt == { j \in 1..Len(out) : IsHeader(out[j]) }

(* C9: printing keeps the order of discovery: lines are only ever appended *)
(* and none after the run has ended; the Unexpected and Mismatch lines     *)
(* follow the order of the Close events that caused them and all precede   *)
(* the Unclosed section; the header is printed at most once, exactly when  *)
(* the stack is not empty at the end, and what follows it is one line per  *)
(* frame left and nothing else.                                            *)
C9_OutputOrder ==
    /\ [][ /\ Len(out') >= Len(out)
           /\ SubSeq(out', 1, Len(out)) = out
           /\ (pc = "done" => out' = out) ]_vars
    /\ [](/\ Cardinality(HeaderAt) <= 1
          /\ IsSubSeq([j \in 1..Len(SelectSeq(out, IsCloseLine)) |->
                          ClosedBy(SelectSeq(out, IsCloseLine)[j])],
                      ClosesFrom(1))
          /\ \A h \in HeaderAt :
                /\ pc = "done"
                /\ Len(out) = h + Len(stack)
                /\ \A j \in 1..(h - 1) : IsCloseLine(out[j])
                /\ \A j \in (h + 1)..Len(out) : IsUnclosedLine(out[j])
          /\ (HeaderAt = {} => \A j \in 1..Len(out) : IsCloseLine(out[j]))
          /\ (pc = "done" => (HeaderAt # {} <=> stack # <<>>)))

\* A Mismatch line has been printed, then the Unclosed section for one frame.
C9_Witness ==
    /\ pc = "done"
    /\ Len(out) >= 3
    /\ IsMismatchLine(out[1])
    /\ IsHeader(out[Len(out) - 1])

-----------------------------------------------------------------------------
\* The name that follows the delimiter of the tag at p begins with w.
NamedAt(s, p, w) == HasAt(s, p, <<"<">> \o w) \/ HasAt(s, p, <<"<", "/">> \o w)

\* The consumed Open events as frames, and their indices.
OpensConsumed == { m \in 1..Len(consumed) : Kind(consumed[m]) = "Open" }
ClosesConsumed == { m \in 1..Len(consumed) : Kind(consumed[m]) = "Close" }

(* C10: events are consumed in the order of the document, and every line   *)
(* number in a frame or in a printed line is the 1-based line on which the *)
(* tag's "<" stands: never 0; a Mismatch line gives the line of the open   *)
(* tag first and the line of the close tag last.                           *)
C10_LinesAreOneBased ==
    LET starts == TagStarts(content)
        line   == [m \in 1..Len(consumed) |-> LineOfPos(content, starts[m])]
    IN  /\ Len(consumed) <= Len(starts)
        /\ \A m \in 1..Len(consumed) :
               NamedAt(content, starts[m], Name(consumed[m]))
        /\ \A j \in 1..Len(stack) :
               /\ stack[j][2] >= 1
               /\ \E m \in OpensConsumed :
                     stack[j] = <<Name(consumed[m]), line[m]>>
        /\ \A j \in 1..Len(out) :
               /\ IsUnexpectedLine(out[j]) =>
                     \E m \in ClosesConsumed :
                        out[j] = UnexpectedLine(Name(consumed[m]), line[m])
               /\ IsMismatchLine(out[j]) =>
                     \E a \in OpensConsumed : \E b \in ClosesConsumed :
                        /\ a < b
                        /\ out[j] = MismatchLine(Name(consumed[a]), line[a],
                                                 Name(consumed[b]), line[b])
               /\ IsUnclosedLine(out[j]) =>
                     \E m \in OpensConsumed :
                        out[j] = UnclosedLine(Name(consumed[m]), line[m])

\* A tag opened on line 1 has been closed by another name on line 2.
C10_Witness ==
    \E j \in 1..Len(out) :
        /\ IsMismatchLine(out[j])
        /\ out[j][4] = 1
        /\ out[j][8] = 2

-----------------------------------------------------------------------------
\* The calls that have ended, the present one included: file and output.
Ended ==
    earlier \o (IF pc \in {"done", "raised"}
                THEN <<[file |-> file, out |-> out]>> ELSE <<>>)

(* C11: calls are deterministic and isolated: any two calls on the same    *)
(* file, whatever calls came before or between them, print the same lines; *)
(* every call starts its scan with an empty stack and nothing printed.     *)
C11_RunsAreIsolated ==
    /\ \A a \in 1..Len(Ended) : \A b \in 1..Len(Ended) :
           Ended[a].file = Ended[b].file => Ended[a].out = Ended[b].out
    /\ (pc = "scan" /\ i = -1) => (stack = <<>> /\ out = <<>>)

\* A file has been checked, then another that left a frame open, then the
\* first again, and it printed something.
C11_Witness ==
    /\ pc = "done"
    /\ Len(earlier) = 2
    /\ earlier[1].file = file
    /\ earlier[2].file # file
    /\ \E j \in 1..Len(earlier[2].out) : IsHeader(earlier[2].out[j])
    /\ out # <<>>

-----------------------------------------------------------------------------
(* C12: when the file cannot be opened or read the call ends by raising,   *)
(* before any scanning: no line is split off, no tuple is consumed, the    *)
(* stack is never touched and nothing is printed.                          *)
C12_IOErrorBeforeScan ==
    ~file.readable =>
        /\ pc \in {"open", "raised"}
        /\ lines = <<>>
        /\ line_tags = <<>>
        /\ consumed = <<>>
        /\ stack = <<>>
        /\ out = <<>>

\* The call has raised.
C12_Witness ==
    /\ pc = "raised"
    /\ ~file.readable

-----------------------------------------------------------------------------
\* The exit status of the script once the call of line 33 has ended: the
\* module has no further statement and never calls exit, so the status is 0
\* after a return and 1 after an uncaught exception.
ExitCode == IF pc = "raised" THEN 1 ELSE 0

(* C13: the exit code tells clean documents from defective ones: a run     *)
(* that has returned exits with 0 exactly when it printed no diagnostic.   *)
C13_ExitCodeTellsDefects ==
    pc = "done" => (ExitCode = 0 <=> out = <<>>)

-----------------------------------------------------------------------------
Terminated == pc \in {"done", "raised"}

(* C14: every run terminates; it is one pass that consumes the tags in     *)
(* order, each at most once, without looking ahead or going back, so what  *)
(* it has handled when it ends (tags consumed plus Unclosed lines printed) *)
(* is at most the number of tags plus the final depth of the stack; the    *)
(* stack is never deeper than the number of Opens consumed so far.         *)
C14_Terminates ==
    /\ <>Terminated
    /\ [](/\ Len(consumed) <= Len(AllTags)
          /\ consumed = SubSeq(AllTags, 1, Len(consumed))
          /\ Len(stack) <= CountOf("Open", 1, Len(consumed))
          /\ Terminated =>
                Len(consumed) + Len(SelectSeq(out, IsUnclosedLine))
                    <= Len(AllTags) + Len(stack))
    /\ [][ /\ Len(consumed') >= Len(consumed)
           /\ Len(consumed') <= Len(consumed) + 1
           /\ (Terminated => UNCHANGED vars) ]_vars

\* A run over three tags has ended with two frames left.
C14_Witness ==
    /\ pc = "done"
    /\ Len(consumed) = 3
    /\ Len(stack) = 2
    /\ Len(SelectSeq(out, IsUnclosedLine)) = 2

-----------------------------------------------------------------------------
\* The Open consumed as m-th event is still open after the first n events.
UnpoppedAt(m, n) ==
    /\ Kind(consumed[m]) = "Open"
    /\ \A b \in (m + 1)..n :
           CountOf("Close", m + 1, b) <= CountOf("Open", m + 1, b)

\* The Opens that the Close consumed as c-th event can find on the stack.
OpenBefore(c) == { m \in 1..(c - 1) : UnpoppedAt(m, c - 1) }

\* The Open that the Close consumed as c-th event pops: the latest one open.
Partner(c) == CHOOSE m \in OpenBefore(c) : \A m2 \in OpenBefore(c) : m2 <= m

\* The Closes consumed, by what line 20 and line 24 find.
CleanCloses ==
    { c \in ClosesConsumed :
        OpenBefore(c) # {} /\ Name(consumed[Partner(c)]) = Name(consumed[c]) }

MismatchCloses ==
    { c \in ClosesConsumed :
        OpenBefore(c) # {} /\ Name(consumed[Partner(c)]) # Name(consumed[c]) }

UnexpectedCloses == { c \in ClosesConsumed : OpenBefore(c) = {} }

\* The Opens consumed that a later Close has popped.
PoppedOpens == { m \in OpensConsumed : ~Unpopped(m) }

(* C15: in every state the Opens consumed are the frames popped plus the    *)
(* frames on the stack, every frame popped was popped by a clean match or  *)
(* by a Close reported as Mismatch, and the Closes consumed are the clean  *)
(* matches plus the Mismatch lines plus the Unexpected lines printed; so   *)
(* at the end of a run that consumed every tuple the Opens are the clean   *)
(* matches plus the Mismatch lines plus the Unclosed lines, and the        *)
(* Unclosed lines are as many as the Opens never popped.                   *)
C15_Conservation ==
    LET mismatches == Len(SelectSeq(out, IsMismatchLine))
        unexpected == Len(SelectSeq(out, IsUnexpectedLine))
        unclosed   == Len(SelectSeq(out, IsUnclosedLine))
        clean      == Cardinality(CleanCloses)
    IN  /\ Cardinality(OpensConsumed) = Cardinality(PoppedOpens) + Len(stack)
        /\ Cardinality(PoppedOpens) = clean + mismatches
        /\ mismatches = Cardinality(MismatchCloses)
        /\ unexpected = Cardinality(UnexpectedCloses)
        /\ Cardinality(ClosesConsumed) = clean + mismatches + unexpected
        /\ pc = "done" /\ consumed = AllTags =>
              /\ Cardinality(OpensConsumed) = clean + mismatches + unclosed
              /\ unclosed = Cardinality(OpensConsumed \ PoppedOpens)

\* A run has consumed every tuple of a file with a Mismatch and a tag left
\* unclosed.
C15_Witness ==
    /\ pc = "done"
    /\ consumed = AllTags
    /\ Len(consumed) = 3
    /\ Len(SelectSeq(out, IsMismatchLine)) = 1
    /\ Len(SelectSeq(out, IsUnclosedLine)) = 1

-----------------------------------------------------------------------------
\* The closing lines of the Unexpected and Mismatch lines printed, in order.
ClosingLines ==
    [j \in 1..Len(SelectSeq(out, IsCloseLine)) |->
        ClosedBy(SelectSeq(out, IsCloseLine)[j])[2]]

(* C16: in every state the lines of the frames never decrease from the      *)
(* bottom of the stack to its top and none is after the line being         *)
(* scanned; every Mismatch line names an opening line that is not after    *)
(* its closing line, and the closing lines of the Unexpected and Mismatch  *)
(* lines never decrease down the output.                                   *)
C16_LinesNeverDecrease ==
    /\ \A j \in 1..(Len(stack) - 1) : stack[j][2] <= stack[j + 1][2]
    /\ \A j \in 1..Len(stack) : stack[j][2] <= i + 1
    /\ \A j \in 1..Len(out) : IsMismatchLine(out[j]) => out[j][4] <= out[j][8]
    /\ \A j \in 1..(Len(ClosingLines) - 1) :
           ClosingLines[j] <= ClosingLines[j + 1]
    /\ \A j \in 1..Len(ClosingLines) : ClosingLines[j] <= i + 1

\* A frame of an earlier line is on the stack after a Mismatch between a tag
\* of that line and a closing tag of the line being scanned.
C16_Witness ==
    /\ Len(stack) = 1
    /\ stack[1][2] < i + 1
    /\ \E j \in 1..Len(out) : IsMismatchLine(out[j]) /\ out[j][4] < out[j][8]

-----------------------------------------------------------------------------
(* generate_visemes.py: one call of generate_visemes (lines 41-120).       *)
(* A text or a path is a sequence of strings joined end to end, '' is the  *)
(* empty sequence; an optional value is None or a sequence of one value.   *)

None == <<>>

Some(x) == <<x>>

\* The truth value Python gives an optional text: neither None nor ''.
Truthy(o) == o # None /\ o[1] # <<>>

AudioPath == <<"speech.wav">>

OutputPath == <<"visemes.json">>

RhubarbPath == <<"/usr/local/bin/rhubarb">>

Transcript == <<"Hello world">>

\* Line 88.
TranscriptPath(audio_path) == audio_path \o <<".transcript.txt">>

Paths == {AudioPath, OutputPath, RhubarbPath, TranscriptPath(AudioPath)}

\* Any file may be there before the call, the transcript file included.
Disks == [Paths -> {None, Some(<<"old">>)}]

\* Lines 19-38: the path of the executable, or None.
find_rhubarb(d) == IF d[RhubarbPath] # None THEN Some(RhubarbPath) ELSE None

\* What Rhubarb can write to its standard output.
FullOutput ==
    <<"{\"metadata\": {\"duration\": 2}, \"mouthCues\": [{\"value\": \"X\"}]}">>

BareOutput == <<"{}">>

NoOutput == <<>>

\* The outcomes of a Rhubarb process that was launched.
Results ==
    { [returncode |-> 0, stdout |-> FullOutput, stderr |-> <<>>],
      [returncode |-> 0, stdout |-> BareOutput, stderr |-> <<>>],
      [returncode |-> 0, stdout |-> NoOutput, stderr |-> <<>>],
      [returncode |-> 1, stdout |-> NoOutput, stderr |-> <<"no audio">>] }

\* Line 109: the parsed document, or None where json.loads raises.
json_loads(text) ==
    IF text = FullOutput
    THEN Some([metadata  |-> Some([duration |-> Some(2)]),
               mouthCues |-> Some(<<"X">>)])
    ELSE IF text = BareOutput
    THEN Some([metadata |-> None, mouthCues |-> None])
    ELSE None

\* Lines 123-142.
transform_rhubarb_output(rhubarb_data) ==
    [duration |-> IF rhubarb_data.metadata # None
                     /\ rhubarb_data.metadata[1].duration # None
                  THEN rhubarb_data.metadata[1].duration[1]
                  ELSE 0,
     visemes  |-> IF rhubarb_data.mouthCues # None
                  THEN rhubarb_data.mouthCues[1]
                  ELSE <<>>]

\* Line 117: the text json.dump writes.
json_dump(viseme_data) ==
    IF viseme_data.visemes = <<>>
    THEN <<"{\"duration\": 0, \"visemes\": []}">>
    ELSE <<"{\"duration\": 2, \"visemes\": [{\"value\": \"X\"}]}">>

\* The variables of find_mismatch.py, which this script never touches.
scanVars == <<file, content, lines, i, line_tags, k, stack, out, pc, consumed,
              earlier>>

\* Lines 41-47: the call is entered with its arguments.
VisemesInit ==
    /\ disk \in Disks
    /\ \E output_path \in {None, Some(OutputPath)},
          transcript \in {None, Some(<<>>), Some(Transcript)},
          extended_shapes \in BOOLEAN :
          gv = [pc              |-> "find",
                audio_path      |-> AudioPath,
                output_path     |-> output_path,
                transcript      |-> transcript,
                extended_shapes |-> extended_shapes,
                recognizer      |-> <<"pocketSphinx">>,
                rhubarb_path    |-> None,
                cmd             |-> <<>>,
                result          |-> None,
                data            |-> None,
                viseme_data     |-> None,
                printed         |-> <<>>,
                raised          |-> "",
                returned        |-> None,
                disk_at_entry   |-> disk]
    /\ file = [readable |-> FALSE, data |-> <<>>]
    /\ content = <<>>
    /\ lines = <<>>
    /\ i = -1
    /\ line_tags = <<>>
    /\ k = 1
    /\ stack = <<>>
    /\ out = <<>>
    /\ pc = "open"
    /\ consumed = <<>>
    /\ earlier = <<>>

\* Lines 61-67.
FindRhubarb ==
    /\ gv.pc = "find"
    /\ LET rhubarb_path == find_rhubarb(disk)
       IN  gv' = IF rhubarb_path = None
                 THEN [gv EXCEPT !.pc = "raised",
                                 !.raised = "FileNotFoundError"]
                 ELSE [gv EXCEPT !.pc = "audio",
                                 !.rhubarb_path = rhubarb_path]
    /\ UNCHANGED <<disk, scanVars>>

\* Lines 69-70.
CheckAudio ==
    /\ gv.pc = "audio"
    /\ gv' = IF disk[gv.audio_path] = None
             THEN [gv EXCEPT !.pc = "raised", !.raised = "FileNotFoundError"]
             ELSE [gv EXCEPT !.pc = "build"]
    /\ UNCHANGED <<disk, scanVars>>

\* Lines 73-84.
BuildCmd ==
    /\ gv.pc = "build"
    /\ gv' = [gv EXCEPT
                !.pc = "transcript",
                !.cmd = <<gv.rhubarb_path[1], gv.audio_path,
                          <<"--exportFormat">>, <<"json">>,
                          <<"--recognizer">>, gv.recognizer>>
                        \o (IF gv.extended_shapes
                            THEN << <<"--extendedShapes">>, <<"GHX">> >>
                            ELSE << <<"--extendedShapes">>, <<>> >>)]
    /\ UNCHANGED <<disk, scanVars>>

\* Lines 86-92.
WriteTranscript ==
    /\ gv.pc = "transcript"
    /\ IF Truthy(gv.transcript)
       THEN LET transcript_path == TranscriptPath(gv.audio_path)
            IN  /\ disk' = [disk EXCEPT
                              ![transcript_path] = Some(gv.transcript[1])]
                /\ gv' = [gv EXCEPT
                            !.pc = "run",
                            !.cmd = gv.cmd \o << <<"--dialogFile">>,
                                                 transcript_path >>]
       ELSE /\ disk' = disk
            /\ gv' = [gv EXCEPT !.pc = "run"]
    /\ UNCHANGED scanVars

\* Lines 95-96: the command is printed and the process is started.
Launch ==
    /\ gv.pc = "run"
    /\ gv' = [gv EXCEPT !.pc = "running",
                        !.printed = Append(gv.printed, <<"Running: ", gv.cmd>>)]
    /\ UNCHANGED <<disk, scanVars>>

\* Lines 95-96: the command is printed and subprocess.run raises, the
\* executable found cannot be started.
LaunchFails ==
    /\ gv.pc = "run"
    /\ gv' = [gv EXCEPT !.pc = "raised",
                        !.raised = "OSError",
                        !.printed = Append(gv.printed, <<"Running: ", gv.cmd>>)]
    /\ UNCHANGED <<disk, scanVars>>

\* Line 96: the process ends and subprocess.run returns.
RhubarbExits ==
    /\ gv.pc = "running"
    /\ \E result \in Results :
          gv' = [gv EXCEPT !.pc = "cleanup", !.result = Some(result)]
    /\ UNCHANGED <<disk, scanVars>>

\* Lines 98-103: os.remove removes the file, or raises and is passed over.
CleanUp ==
    /\ gv.pc = "cleanup"
    /\ IF Truthy(gv.transcript)
       THEN \E removed \in BOOLEAN :
               disk' = IF removed
                       THEN [disk EXCEPT
                               ![TranscriptPath(gv.audio_path)] = None]
                       ELSE disk
       ELSE disk' = disk
    /\ gv' = [gv EXCEPT !.pc = "returncode"]
    /\ UNCHANGED scanVars

\* Lines 105-106.
CheckReturnCode ==
    /\ gv.pc = "returncode"
    /\ gv' = IF gv.result[1].returncode # 0
             THEN [gv EXCEPT !.pc = "raised", !.raised = "RuntimeError"]
             ELSE [gv EXCEPT !.pc = "parse"]
    /\ UNCHANGED <<disk, scanVars>>

\* Line 109.
ParseOutput ==
    /\ gv.pc = "parse"
    /\ LET data == json_loads(gv.result[1].stdout)
       IN  gv' = IF data = None
                 THEN [gv EXCEPT !.pc = "raised",
                                 !.raised = "JSONDecodeError"]
                 ELSE [gv EXCEPT !.pc = "transform", !.data = data]
    /\ UNCHANGED <<disk, scanVars>>

\* Line 112.
Transform ==
    /\ gv.pc = "transform"
    /\ gv' = [gv EXCEPT
                !.pc = "save",
                !.viseme_data = Some(transform_rhubarb_output(gv.data[1]))]
    /\ UNCHANGED <<disk, scanVars>>

\* Lines 115-118.
Save ==
    /\ gv.pc = "save"
    /\ IF Truthy(gv.output_path)
       THEN /\ disk' = [disk EXCEPT
                          ![gv.output_path[1]] =
                              Some(json_dump(gv.viseme_data[1]))]
            /\ gv' = [gv EXCEPT
                        !.pc = "return",
                        !.printed = Append(gv.printed,
                                       <<"Saved visemes to: ",
                                         gv.output_path[1]>>)]
       ELSE /\ disk' = disk
            /\ gv' = [gv EXCEPT !.pc = "return"]
    /\ UNCHANGED scanVars

\* Line 120.
Return ==
    /\ gv.pc = "return"
    /\ gv' = [gv EXCEPT !.pc = "returned", !.returned = gv.viseme_data]
    /\ UNCHANGED <<disk, scanVars>>

VisemesNext ==
    \/ FindRhubarb
    \/ CheckAudio
    \/ BuildCmd
    \/ WriteTranscript
    \/ Launch
    \/ LaunchFails
    \/ RhubarbExits
    \/ CleanUp
    \/ CheckReturnCode
    \/ ParseOutput
    \/ Transform
    \/ Save
    \/ Return

VisemesSpec == VisemesInit /\ [][VisemesNext]_vars

-----------------------------------------------------------------------------
\* The call has passed lines 88-92: the command names the transcript file.
TranscriptWritten ==
    \E j \in 1..Len(gv.cmd) : gv.cmd[j] = <<"--dialogFile">>

(* C17: in a call with a transcript that is not empty the transcript file *)
(* holds the transcript while Rhubarb runs and, once written, is gone when *)
(* the call has returned or raised, whatever Rhubarb did; in a call with   *)
(* no transcript the file is as it was when the call was entered.          *)
C17_TranscriptFileGone ==
    LET transcript_path == TranscriptPath(gv.audio_path)
    IN  /\ Truthy(gv.transcript) =>
              /\ gv.pc = "running" =>
                    disk[transcript_path] = Some(gv.transcript[1])
              /\ gv.pc \in {"returned", "raised"} /\ TranscriptWritten =>
                    disk[transcript_path] = None
        /\ ~Truthy(gv.transcript) =>
              disk[transcript_path] = gv.disk_at_entry[transcript_path]

====
